---- MODULE Spec2Model ----
(***************************************************************************)
(* PRCU (kernel/rcu/prcu.c, include/linux/prcu.h): the reader fast path,   *)
(* the context-switch hook, the grace-period engine synchronize_prcu, the  *)
(* callback list with its version stamps, the tick-driven dispatcher and   *)
(* prcu_barrier, as a state machine over the per-CPU prcu_local_struct     *)
(* records and the global prcu_struct.                                     *)
(*                                                                         *)
(* Tasks and processors.  A reader task inside a read-side critical        *)
(* section either runs on a processor (rcpu[r] = p) or is switched out     *)
(* (rcpu[r] = 0); the host calls prcu_note_context_switch whenever the     *)
(* task running on a processor leaves it, so the hook's action also        *)
(* unbinds the task, in one step.  A reader outside any critical section    *)
(* holds no PRCU state and is not bound to a processor.  A writer touches  *)
(* its own processor only in step 3 of synchronize_prcu, so it is bound    *)
(* to a processor only there: a processor on which no reader is running.   *)
(***************************************************************************)
EXTENDS Integers, Sequences, FiniteSets, TLC

NCPU == 2       \* possible processors
NReaders == 2   \* reader tasks
NWriters == 2   \* tasks calling synchronize_prcu
MaxNest == 2    \* deepest nesting of prcu_read_lock a task reaches
MaxGpv == 2     \* synchronize_prcu calls started in one behaviour
MaxIpi == 1     \* prcu_handler calls in flight to one processor
MaxCb == 2      \* call_prcu calls made in one behaviour

CPUs == 1..NCPU
Readers == 1..NReaders
Writers == 1..NWriters

VARIABLES
  gpv,        \* prcu->global_version
  cbv,        \* prcu->cb_version
  active_ctr, \* prcu->active_ctr
  mtx,        \* prcu->mtx: 0 free, else the writer holding it
  locked,     \* [CPUs -> Nat]  local->locked
  online,     \* [CPUs -> 0..1] local->online
  version,    \* [CPUs -> Nat]  local->version
  ipi,        \* [CPUs -> Nat]  prcu_handler cross-calls sent and not yet run
  rdepth,     \* [Readers -> Nat] nesting depth of the task's critical section
  rcpu,       \* [Readers -> 0..NCPU] processor the task runs on, 0: none
  rpc,        \* [Readers -> {"out","lock"}] "lock": between line 121 and 128
  nested,     \* [Readers -> BOOLEAN] history: the task's present outermost
              \* critical section has held a nested one
  nlock,      \* prcu_read_lock calls made so far (counted when lim.locks > 0)
  wpc,        \* [Writers -> position in synchronize_prcu]
  wver,       \* [Writers -> Nat] the local 'version' of synchronize_prcu
  wi,         \* [Writers -> 1..NCPU+1] the scan's loop variable 'cpu'
  wcpus,      \* [Writers -> SUBSET CPUs] the local cpumask 'cpus'
  had,        \* [Writers -> BOOLEAN] history: the call is in progress and
              \* some reader was inside a critical section at its step-1
              \* increment
  pre,        \* [Writers -> SUBSET Readers] history: the readers that were
              \* inside a critical section at the call's step-1 increment
              \* and have not yet run the matching outermost unlock
  cb_version, \* [CPUs -> Nat] local->cb_version
  cblist,     \* [CPUs -> Seq([fn, id, ver])] local->cblist: the callbacks,
              \* each with the version of its prcu_version_head; fn "cb" is
              \* a caller's function, "bar" is prcu_barrier_callback; id is
              \* the rcu_head: the number of the call_prcu call that passed
              \* it, or 0 - p for the barrier_head of processor p
  cbh,        \* [CPUs -> Seq([rd, ws, gp, old])] history of each queued
              \* callback: rd the readers inside a critical section at the
              \* enqueue and still inside it, ws the writers whose call
              \* incremented global_version after the enqueue and has not
              \* returned, gp whether such a call has published cb_version,
              \* old whether it was queued when prcu_barrier was called
  softirq,    \* [CPUs -> BOOLEAN] PRCU_SOFTIRQ raised on the processor
  dpc,        \* [CPUs -> {"idle","run"}] prcu_process_callbacks: "run" from
              \* the read of prcu->cb_version to the store of local->cb_version
  dsnap,      \* [CPUs -> Nat] the local 'cb_version' of prcu_process_callbacks
  ncb,        \* call_prcu calls made so far
  warned,     \* the rcu_heads for which WARN_ON(1) of call_prcu has fired
  lastInv,    \* history: the callback invoked last in a dispatch round not
              \* yet ended, with the value of prcu->cb_version at that instant
  barrier_mtx,       \* prcu->barrier_mtx: 0 free, 1 held
  barrier_cpu_count, \* prcu->barrier_cpu_count
  barrier_done,      \* prcu->barrier_completion: number of complete() calls
                     \* since init_completion
  bpc,        \* position of the task calling prcu_barrier
  nold,       \* history: the callbacks queued when prcu_barrier was called
  bi,         \* the loop variable 'cpu' of prcu_barrier
  lim         \* the workload of the behaviour, fixed by the initial state:
              \* readers, writers: how many of the tasks take part; nest: the
              \* deepest nesting; locks: how many prcu_read_lock calls are
              \* made (0: any number); syncs, cbs: how many synchronize_prcu
              \* and call_prcu calls are made; fail: whether kmalloc may fail

gpvars == <<gpv, cbv, active_ctr, mtx, locked, online, version, ipi>>
rvars == <<rdepth, rcpu, rpc, nested, nlock>>
wvars == <<wpc, wver, wi, wcpus, pre, had>>
cnoh == <<cb_version, cblist, softirq, dpc, dsnap, ncb, warned, lastInv>>
cvars == <<cnoh, cbh>>
bvars == <<barrier_mtx, barrier_cpu_count, barrier_done, bpc, bi, nold>>
vars == <<gpvars, rvars, wvars, cvars, bvars, lim>>

\* A prcu_report() that never advances local->version.
prcu_report_Never(p) == version[p]

\* prcu_report(): cmpxchg(&local->version, local_version, global_version)
\* when global_version > local_version; the new value of local->version.
prcu_report(p) == IF gpv > version[p] THEN gpv ELSE version[p]

\* The readers running on processor p.
On(p) == {r \in Readers : rcpu[r] = p}

\* The state prcu_init() leaves, but for local->online, which is 'on': a
\* processor on which a reader has run and left since the last context
\* switch has online 1 and is otherwise as prcu_init() left it.
Boot(on) ==
  /\ gpv = 0 /\ cbv = 0 /\ active_ctr = 0 /\ mtx = 0
  /\ locked = [p \in CPUs |-> 0]
  /\ online = on
  /\ version = [p \in CPUs |-> 0]
  /\ ipi = [p \in CPUs |-> 0]
  /\ rdepth = [r \in Readers |-> 0]
  /\ rcpu = [r \in Readers |-> 0]
  /\ rpc = [r \in Readers |-> "out"]
  /\ nested = [r \in Readers |-> FALSE]
  /\ nlock = 0
  /\ wpc = [w \in Writers |-> "idle"]
  /\ wver = [w \in Writers |-> 0]
  /\ wi = [w \in Writers |-> 1]
  /\ wcpus = [w \in Writers |-> {}]
  /\ pre = [w \in Writers |-> {}]
  /\ had = [w \in Writers |-> FALSE]
  /\ cb_version = [p \in CPUs |-> 0]
  /\ cblist = [p \in CPUs |-> <<>>]
  /\ cbh = [p \in CPUs |-> <<>>]
  /\ softirq = [p \in CPUs |-> FALSE]
  /\ dpc = [p \in CPUs |-> "idle"]
  /\ dsnap = [p \in CPUs |-> 0]
  /\ ncb = 0
  /\ warned = {}
  /\ lastInv = [fn |-> "none"]
  /\ barrier_mtx = 0
  /\ barrier_cpu_count = 0
  /\ barrier_done = 0
  /\ bpc = "idle"
  /\ bi = 1
  /\ nold = 0

Base == Boot([p \in CPUs |-> 0])

Visited == \E on \in [CPUs -> {0, 1}] : Boot(on)

Workload(readers, nest, locks, writers, syncs, cbs, fail) ==
  [readers |-> readers, nest |-> nest, locks |-> locks, writers |-> writers,
   syncs |-> syncs, cbs |-> cbs, fail |-> fail]

(***************************************************************************)
(* prcu_read_lock().  The task r runs on p (a task outside any critical    *)
(* section takes a processor no reader runs on).  When local->online is 0  *)
(* the store of 1 and the increment of local->locked are two steps, with   *)
(* preemption disabled in between.                                         *)
(***************************************************************************)
CanRunOn(r, p) ==
  \/ rcpu[r] = p
  \/ rdepth[r] = 0 /\ rcpu[r] = 0 /\ On(p) = {}

\* A task may call prcu_read_lock again.
MayLock(r) ==
  /\ r <= lim.readers /\ rdepth[r] < lim.nest
  /\ lim.locks > 0 => nlock < lim.locks

Counted == IF lim.locks > 0 THEN nlock + 1 ELSE nlock

\* A prcu_read_lock that does not mark its processor online.
MarkOnline_Never(p) == online

\* line 121: WRITE_ONCE(local->online, 1) on processor p.
MarkOnline(p) == [online EXCEPT ![p] = 1]

LockOnline(r, p) ==
  /\ MayLock(r)
  /\ rpc[r] = "out" /\ CanRunOn(r, p)
  /\ online[p] = 0
  /\ online' = MarkOnline(p)
  /\ rcpu' = [rcpu EXCEPT ![r] = p]
  /\ rpc' = [rpc EXCEPT ![r] = "lock"]
  /\ nlock' = Counted
  /\ UNCHANGED <<gpv, cbv, active_ctr, mtx, locked, version, ipi, rdepth, nested,
                 wvars, cvars, bvars, lim>>

LockInc(r, p) ==
  /\ \/ rpc[r] = "lock" /\ rcpu[r] = p /\ UNCHANGED nlock
     \/ /\ rpc[r] = "out" /\ MayLock(r) /\ CanRunOn(r, p) /\ online[p] = 1
        /\ nlock' = Counted
  /\ locked' = [locked EXCEPT ![p] = @ + 1]
  /\ rdepth' = [rdepth EXCEPT ![r] = @ + 1]
  /\ rcpu' = [rcpu EXCEPT ![r] = p]
  /\ rpc' = [rpc EXCEPT ![r] = "out"]
  /\ nested' = [nested EXCEPT ![r] = rdepth[r] >= 1]
  /\ UNCHANGED <<gpv, cbv, active_ctr, mtx, online, version, ipi, wvars, cvars, bvars, lim>>

(***************************************************************************)
(* prcu_read_unlock() by the task r running on p.                          *)
(***************************************************************************)
\* The history of a reader leaving its outermost critical section.
Leave(r) == [w \in Writers |-> IF rdepth[r] = 1 THEN pre[w] \ {r} ELSE pre[w]]

LeaveCb(r) ==
  [p \in CPUs |->
    [i \in DOMAIN cbh[p] |->
      IF rdepth[r] = 1 THEN [cbh[p][i] EXCEPT !.rd = @ \ {r}] ELSE cbh[p][i]]]

\* An unlock that calls prcu_report() whatever it found in local->locked.
ReportOnUnlock_Always(p) == prcu_report(p)

\* lines 157-158: local->version after the unlock that found 'locked' in
\* local->locked: prcu_report() when it was 1.
ReportOnUnlock(p) == IF locked[p] = 1 THEN prcu_report(p) ELSE version[p]

UnlockLocal(r, p) ==
  /\ rpc[r] = "out" /\ rdepth[r] > 0 /\ rcpu[r] = p
  /\ locked[p] > 0
  /\ locked' = [locked EXCEPT ![p] = @ - 1]
  /\ version' = [version EXCEPT ![p] = ReportOnUnlock(p)]
  /\ rdepth' = [rdepth EXCEPT ![r] = @ - 1]
  /\ rcpu' = [rcpu EXCEPT ![r] = IF rdepth[r] = 1 THEN 0 ELSE p]
  /\ nested' = [nested EXCEPT ![r] = IF rdepth[r] = 1 THEN FALSE ELSE @]
  /\ pre' = Leave(r)
  /\ cbh' = LeaveCb(r)
  /\ UNCHANGED <<gpv, cbv, active_ctr, mtx, online, ipi, rpc, nlock, wpc, wver, wi, wcpus, had, cnoh, bvars, lim>>

\* A migrated reader's unlock that also runs prcu_report() on the processor
\* it happens to run on.
UnlockMigrated_Report(r, p) ==
  /\ rpc[r] = "out" /\ rdepth[r] > 0 /\ rcpu[r] = p
  /\ locked[p] = 0
  /\ active_ctr' = active_ctr - 1
  /\ version' = [version EXCEPT ![p] = prcu_report(p)]
  /\ rdepth' = [rdepth EXCEPT ![r] = @ - 1]
  /\ rcpu' = [rcpu EXCEPT ![r] = IF rdepth[r] = 1 THEN 0 ELSE p]
  /\ nested' = [nested EXCEPT ![r] = IF rdepth[r] = 1 THEN FALSE ELSE @]
  /\ pre' = Leave(r)
  /\ cbh' = LeaveCb(r)
  /\ UNCHANGED <<gpv, cbv, mtx, locked, online, ipi, rpc, nlock, wpc, wver, wi, wcpus, had, cnoh, bvars, lim>>

UnlockMigrated(r, p) ==
  /\ rpc[r] = "out" /\ rdepth[r] > 0 /\ rcpu[r] = p
  /\ locked[p] = 0
  /\ active_ctr' = active_ctr - 1
  /\ rdepth' = [rdepth EXCEPT ![r] = @ - 1]
  /\ rcpu' = [rcpu EXCEPT ![r] = IF rdepth[r] = 1 THEN 0 ELSE p]
  /\ nested' = [nested EXCEPT ![r] = IF rdepth[r] = 1 THEN FALSE ELSE @]
  /\ pre' = Leave(r)
  /\ cbh' = LeaveCb(r)
  /\ UNCHANGED <<gpv, cbv, mtx, locked, online, version, ipi, rpc, nlock, wpc, wver, wi, wcpus, had, cnoh, bvars, lim>>

(***************************************************************************)
(* prcu_note_context_switch() on p: the task running on p, if any, leaves  *)
(* the processor.  Not while a task on p has preemption disabled.          *)
(***************************************************************************)
\* A hook that counts the processor, not its critical sections.
Moved_One(p) == IF locked[p] > 0 THEN 1 ELSE 0

\* lines 258-260: what the hook adds to prcu->active_ctr.
Moved(p) == locked[p]

prcu_note_context_switch(p) ==
  /\ \A r \in On(p) : rpc[r] = "out"
  /\ active_ctr' = active_ctr + Moved(p)
  /\ locked' = [locked EXCEPT ![p] = 0]
  /\ online' = [online EXCEPT ![p] = 0]
  /\ version' = [version EXCEPT ![p] = prcu_report(p)]
  /\ rcpu' = [r \in Readers |-> IF rcpu[r] = p THEN 0 ELSE rcpu[r]]
  /\ UNCHANGED <<gpv, cbv, mtx, ipi, rdepth, rpc, nested, nlock, wvars, cvars, bvars, lim>>

\* A switched-out task inside a critical section is scheduled on p.
Resume(r, p) ==
  /\ rdepth[r] > 0 /\ rcpu[r] = 0 /\ On(p) = {}
  /\ rcpu' = [rcpu EXCEPT ![r] = p]
  /\ UNCHANGED <<gpvars, rdepth, rpc, nested, nlock, wvars, cvars, bvars, lim>>

(***************************************************************************)
(* prcu_handler() run on p by a cross-call.                                *)
(***************************************************************************)
prcu_handler(p) ==
  /\ ipi[p] > 0
  /\ ipi' = [ipi EXCEPT ![p] = @ - 1]
  /\ version' = [version EXCEPT ![p] = IF locked[p] = 0 THEN gpv ELSE @]
  /\ UNCHANGED <<gpv, cbv, active_ctr, mtx, locked, online, rvars, wvars, cvars, bvars, lim>>

(***************************************************************************)
(* synchronize_prcu() called by the task w.                                *)
(***************************************************************************)
\* line 208: version = atomic64_add_return(1, &prcu->global_version)
SyncInc(w) ==
  /\ w <= lim.writers
  /\ wpc[w] \in {"idle", "ret"} /\ gpv < lim.syncs
  /\ gpv' = gpv + 1
  /\ wver' = [wver EXCEPT ![w] = gpv + 1]
  /\ wpc' = [wpc EXCEPT ![w] = "inc"]
  /\ pre' = [pre EXCEPT ![w] = {r \in Readers : rdepth[r] > 0}]
  /\ had' = [had EXCEPT ![w] = \E r \in Readers : rdepth[r] > 0]
  /\ cbh' = [p \in CPUs |->
              [i \in DOMAIN cbh[p] |-> [cbh[p][i] EXCEPT !.ws = @ \cup {w}]]]
  /\ UNCHANGED <<cbv, active_ctr, mtx, locked, online, version, ipi, rvars, wi, wcpus, cnoh, bvars, lim>>

\* The value line 213 stores into the local version of the writer's processor.
OwnVersion(w, p) == wver[w]

\* lines 210-216: mutex_lock, local->version = version on the processor p the
\* writer runs on, cpumask_clear.
SyncLock(w, p) ==
  /\ wpc[w] = "inc" /\ mtx = 0 /\ On(p) = {}
  /\ mtx' = w
  /\ version' = [version EXCEPT ![p] = OwnVersion(w, p)]
  /\ wcpus' = [wcpus EXCEPT ![w] = {}]
  /\ wi' = [wi EXCEPT ![w] = 1]
  /\ wpc' = [wpc EXCEPT ![w] = "scan"]
  /\ UNCHANGED <<gpv, cbv, active_ctr, locked, online, ipi, rvars, wver, pre, had, cvars, bvars, lim>>

\* Whether the scan sends processor p a prcu_handler cross-call (lines 225-227).
NeedsIpi(w, p) == online[p] # 0 /\ version[p] < wver[w]

\* lines 218-231: one iteration of the scan, for processor wi[w].
SyncScan(w) ==
  /\ wpc[w] = "scan"
  /\ LET p == wi[w] IN
       /\ IF NeedsIpi(w, p)
            THEN /\ ipi[p] < MaxIpi
                 /\ ipi' = [ipi EXCEPT ![p] = @ + 1]
                 /\ wcpus' = [wcpus EXCEPT ![w] = @ \cup {p}]
            ELSE UNCHANGED <<ipi, wcpus>>
       /\ wi' = [wi EXCEPT ![w] = p + 1]
       /\ wpc' = [wpc EXCEPT ![w] = IF p = NCPU THEN "spin" ELSE "scan"]
  /\ UNCHANGED <<gpv, cbv, active_ctr, mtx, locked, online, version, rvars, wver, pre, had, cvars, bvars, lim>>

\* Whether the spin of lines 236-237 on processor p has ended.
Committed(w, p) == version[p] >= wver[w]

\* The processor the loop of line 234 is at: the first left in 'cpus'.
SpinCpu(w) == CHOOSE q \in wcpus[w] : \A q2 \in wcpus[w] : q <= q2

\* lines 234-238: the spin on the first processor left in 'cpus' ends.
SyncSpin(w) ==
  /\ wpc[w] = "spin" /\ wcpus[w] # {}
  /\ LET p == SpinCpu(w) IN
       /\ Committed(w, p)
       /\ wcpus' = [wcpus EXCEPT ![w] = @ \ {p}]
  /\ UNCHANGED <<gpvars, rvars, wpc, wver, wi, pre, had, cvars, bvars, lim>>

\* A writer that does not wait for the switched-out readers.
NoActive_Skip == TRUE

\* Whether lines 241-242 let the writer through.
NoActive == active_ctr = 0

\* lines 241-242: active_ctr is read as 0 (at once, or when woken on wait_q).
SyncWait(w) ==
  /\ wpc[w] = "spin" /\ wcpus[w] = {}
  /\ NoActive
  /\ wpc' = [wpc EXCEPT ![w] = "pub"]
  /\ UNCHANGED <<gpvars, rvars, wver, wi, wcpus, pre, had, cvars, bvars, lim>>

\* A call that publishes the version after its own.
Published_Ahead(w) == wver[w] + 1

\* The value line 244 stores into prcu->cb_version.
Published(w) == wver[w]

\* lines 244-246: atomic64_set(&prcu->cb_version, version), mutex_unlock, return.
SyncPublish(w) ==
  /\ wpc[w] = "pub"
  /\ cbv' = Published(w)
  /\ mtx' = 0
  /\ had' = [had EXCEPT ![w] = FALSE]
  /\ cbh' = [p \in CPUs |->
              [i \in DOMAIN cbh[p] |->
                IF w \in cbh[p][i].ws
                  THEN [cbh[p][i] EXCEPT !.ws = @ \ {w}, !.gp = TRUE]
                  ELSE cbh[p][i]]]
  /\ wpc' = [wpc EXCEPT ![w] = "ret"]
  /\ UNCHANGED <<gpv, active_ctr, locked, online, version, ipi, rvars, wver, wi, wcpus, pre, cnoh, bvars, lim>>

(***************************************************************************)
(* call_prcu() on processor p.  It runs with interrupts enabled on p, so   *)
(* not inside the interrupts-off part of prcu_process_callbacks on p (the  *)
(* dispatcher's read of prcu->cb_version commutes with call_prcu, so "run" *)
(* stands for that part).  'ok' is whether kmalloc returned a record.      *)
(***************************************************************************)
\* The version line 304 stamps on the callback.
Stamp(p) == version[p]

\* lines 304-310: the callback list of p after the enqueue of fn.
Enqueue(p, fn, id) == Append(cblist[p], [fn |-> fn, id |-> id, ver |-> Stamp(p)])

\* A call_prcu that goes on to the enqueue after WARN_ON(1).
Dropped_NoReturn(ok) == FALSE

\* lines 288-291: whether call_prcu returns before the enqueue; 'ok' is
\* whether kmalloc returned a record.
Dropped(ok) == ~ok

\* line 289: the rcu_heads warned about after a call_prcu for 'id'.
Warn(id, ok) == IF ok THEN warned ELSE warned \cup {id}

EnqueueH(p, old) ==
  Append(cbh[p], [rd |-> {r \in Readers : rdepth[r] > 0},
                  ws |-> {}, gp |-> FALSE, old |-> old])

call_prcu(p, ok) ==
  /\ dpc[p] = "idle" /\ ncb < lim.cbs /\ (ok \/ lim.fail)
  /\ ncb' = ncb + 1
  /\ warned' = Warn(ncb + 1, ok)
  /\ IF Dropped(ok)
       THEN UNCHANGED <<cblist, cbh>>
       ELSE /\ cblist' = [cblist EXCEPT ![p] = Enqueue(p, "cb", ncb + 1)]
            /\ cbh' = [cbh EXCEPT ![p] = EnqueueH(p, FALSE)]
  /\ UNCHANGED <<gpvars, rvars, wvars, cb_version, softirq, dpc, dsnap, lastInv, bvars, lim>>

(***************************************************************************)
(* The tick and the dispatcher on processor p.                             *)
(***************************************************************************)
\* prcu_pending()
prcu_pending(p) == cb_version[p] < cbv /\ cblist[p] # <<>>

\* prcu_check_callbacks(): invoke_prcu_core() raises PRCU_SOFTIRQ.
prcu_check_callbacks(p) ==
  /\ prcu_pending(p) /\ ~softirq[p]
  /\ softirq' = [softirq EXCEPT ![p] = TRUE]
  /\ UNCHANGED <<gpvars, rvars, wvars, cb_version, cblist, cbh, dpc, dsnap, ncb,
                 warned, lastInv, bvars, lim>>

\* line 371: cb_version = atomic64_read(&prcu->cb_version)
ProcSnap(p) ==
  /\ softirq[p] /\ dpc[p] = "idle"
  /\ softirq' = [softirq EXCEPT ![p] = FALSE]
  /\ dsnap' = [dsnap EXCEPT ![p] = cbv]
  /\ dpc' = [dpc EXCEPT ![p] = "run"]
  /\ UNCHANGED <<gpvars, rvars, wvars, cb_version, cblist, cbh, ncb, warned,
                 lastInv, bvars, lim>>

\* A loop that also takes the callbacks stamped with the snapshot itself.
Ready_Inclusive(p) == cblist[p] # <<>> /\ Head(cblist[p]).ver <= dsnap[p]

\* The loop condition of line 384.
Ready(p) == cblist[p] # <<>> /\ Head(cblist[p]).ver < dsnap[p]

\* prcu_cblist_dequeue(): the list without its oldest callback.
prcu_cblist_dequeue(l) == Tail(l)

\* A decrement that reports zero one callback early.
DecAndTest_Early(c) == c - 1 <= 1

\* atomic_dec_and_test(&prcu->barrier_cpu_count) on a count of c: whether the
\* decrement reaches 0 (lines 401 and 457).
DecAndTest(c) == c - 1 = 0

\* lines 384-389: one iteration: dequeue the head and invoke its function;
\* prcu_barrier_callback() (lines 399-403) for a callback of prcu_barrier.
ProcInvoke(p) ==
  /\ dpc[p] = "run" /\ Ready(p)
  /\ cblist' = [cblist EXCEPT ![p] = prcu_cblist_dequeue(@)]
  /\ cbh' = [cbh EXCEPT ![p] = Tail(@)]
  /\ lastInv' = [fn |-> Head(cblist[p]).fn, id |-> Head(cblist[p]).id,
                 ver |-> Head(cblist[p]).ver,
                 cbv |-> cbv, rd |-> Head(cbh[p]).rd, gp |-> Head(cbh[p]).gp]
  /\ IF Head(cblist[p]).fn = "bar"
       THEN /\ barrier_cpu_count' = barrier_cpu_count - 1
            /\ barrier_done' = IF DecAndTest(barrier_cpu_count)
                                 THEN barrier_done + 1 ELSE barrier_done
       ELSE UNCHANGED <<barrier_cpu_count, barrier_done>>
  /\ UNCHANGED <<gpvars, rvars, wvars, cb_version, softirq, dpc, dsnap, ncb,
                 warned, barrier_mtx, bpc, bi, nold, lim>>

\* line 391: local->cb_version = cb_version
ProcEnd(p) ==
  /\ dpc[p] = "run" /\ ~Ready(p)
  /\ cb_version' = [cb_version EXCEPT ![p] = dsnap[p]]
  /\ dpc' = [dpc EXCEPT ![p] = "idle"]
  /\ lastInv' = [fn |-> "none"]
  /\ UNCHANGED <<gpvars, rvars, wvars, cblist, cbh, softirq, dsnap, ncb, warned,
                 bvars, lim>>

(***************************************************************************)
(* prcu_barrier() called by one task.                                      *)
(***************************************************************************)
\* lines 433-441: mutex_lock, init_completion, atomic_set(count, 1).
BarStart ==
  /\ bpc \in {"idle", "ret"} /\ barrier_mtx = 0
  /\ barrier_mtx' = 1
  /\ barrier_done' = 0
  /\ barrier_cpu_count' = 1
  /\ bi' = 1
  /\ bpc' = "reg"
  /\ cbh' = [p \in CPUs |-> [i \in DOMAIN cbh[p] |-> [cbh[p][i] EXCEPT !.old = TRUE]]]
  /\ nold' = Cardinality({q \in CPUs \X (1..MaxCb) : q[2] <= Len(cblist[q[1]])})
  /\ UNCHANGED <<gpvars, rvars, wvars, cnoh, lim>>

\* lines 453-454: the synchronous cross-call of prcu_barrier_func() (lines
\* 408-414) on processor bi: atomic_inc and call_prcu(&local->barrier_head).
\* A prcu_barrier_func that does not count its callback.
Registered_NoInc(c) == c

\* line 412: barrier_cpu_count after atomic_inc on a count of c.
Registered(c) == c + 1

BarFunc(ok) ==
  /\ bpc = "reg" /\ dpc[bi] = "idle" /\ (ok \/ lim.fail)
  /\ barrier_cpu_count' = Registered(barrier_cpu_count)
  /\ warned' = Warn(0 - bi, ok)
  /\ IF Dropped(ok)
       THEN UNCHANGED <<cblist, cbh>>
       ELSE /\ cblist' = [cblist EXCEPT ![bi] = Enqueue(bi, "bar", 0 - bi)]
            /\ cbh' = [cbh EXCEPT ![bi] = EnqueueH(bi, FALSE)]
  /\ bi' = bi + 1
  /\ bpc' = IF bi = NCPU THEN "dec" ELSE "reg"
  /\ UNCHANGED <<gpvars, rvars, wvars, cb_version, softirq, dpc, dsnap, ncb,
                 lastInv, barrier_mtx, barrier_done, nold, lim>>

\* lines 457-458: atomic_dec_and_test, complete.
BarDec ==
  /\ bpc = "dec"
  /\ barrier_cpu_count' = barrier_cpu_count - 1
  /\ barrier_done' = IF DecAndTest(barrier_cpu_count)
                       THEN barrier_done + 1 ELSE barrier_done
  /\ bpc' = "wait"
  /\ UNCHANGED <<gpvars, rvars, wvars, cvars, barrier_mtx, bi, nold, lim>>

\* lines 465-469: wait_for_completion returns, mutex_unlock, return.
BarReturn ==
  /\ bpc = "wait" /\ barrier_done > 0
  /\ barrier_mtx' = 0
  /\ bpc' = "ret"
  /\ UNCHANGED <<gpvars, rvars, wvars, cvars, barrier_cpu_count, barrier_done, bi, nold, lim>>

Reader ==
  \E r \in Readers, p \in CPUs :
    \/ LockOnline(r, p)
    \/ LockInc(r, p)
    \/ UnlockLocal(r, p)
    \/ UnlockMigrated(r, p)
    \/ Resume(r, p)

Host == \E p \in CPUs : prcu_note_context_switch(p) \/ prcu_handler(p)

Writer ==
  \E w \in Writers :
    \/ SyncInc(w)
    \/ \E p \in CPUs : SyncLock(w, p)
    \/ SyncScan(w)
    \/ SyncSpin(w)
    \/ SyncWait(w)
    \/ SyncPublish(w)

Caller == \E p \in CPUs, ok \in BOOLEAN : call_prcu(p, ok)

Dispatch ==
  \E p \in CPUs :
    \/ prcu_check_callbacks(p)
    \/ ProcSnap(p)
    \/ ProcInvoke(p)
    \/ ProcEnd(p)

Barrier == BarStart \/ (\E ok \in BOOLEAN : BarFunc(ok)) \/ BarDec \/ BarReturn

(***************************************************************************)
(* Spec: readers, context switches and writers (the grace-period engine):  *)
(* either every reader task with critical sections that do not nest, or    *)
(* one reader task that nests them.                                        *)
(***************************************************************************)
Init ==
  /\ Base
  /\ lim \in {Workload(NReaders, 1, 0, NWriters, MaxGpv, 0, FALSE),
              Workload(1, MaxNest, 0, NWriters, MaxGpv, 0, FALSE)}

Next == Reader \/ Host \/ Writer

Spec == Init /\ [][Next]_vars

(***************************************************************************)
(* SpecCb: callbacks and their dispatch, on processors that readers may    *)
(* have visited: one callback beside every writer, or MaxCb callbacks      *)
(* beside one writer.                                                      *)
(***************************************************************************)
InitCb ==
  /\ Visited
  /\ lim \in {Workload(0, 0, 0, NWriters, MaxGpv, 1, TRUE),
              Workload(0, 0, 0, 1, MaxGpv, MaxCb, TRUE)}

NextCb == Host \/ Writer \/ Caller \/ Dispatch

SpecCb == InitCb /\ [][NextCb]_vars

(***************************************************************************)
(* SpecEnq: MaxCb call_prcu calls beside every writer, up to the tick that *)
(* starts a dispatch, on processors that readers may have visited; kmalloc *)
(* never fails.                                                            *)
(***************************************************************************)
InitEnq == Visited /\ lim = Workload(0, 0, 0, NWriters, MaxGpv, MaxCb, FALSE)

NextEnq == Host \/ Writer \/ Caller

SpecEnq == InitEnq /\ [][NextEnq]_vars

(***************************************************************************)
(* SpecRd: one callback beside a reader and a writer.                      *)
(***************************************************************************)
InitRd == Base /\ lim = Workload(1, 1, 0, 1, 1, 1, FALSE)

NextRd == Reader \/ Host \/ Writer \/ Caller \/ Dispatch

SpecRd == InitRd /\ [][NextRd]_vars

(***************************************************************************)
(* SpecBar: prcu_barrier beside callbacks and a writer, on processors that *)
(* readers may have visited.                                               *)
(***************************************************************************)
InitBar == Visited /\ lim = Workload(0, 0, 0, 1, 1, 1, TRUE)

NextBar == Host \/ Writer \/ Caller \/ Dispatch \/ Barrier

SpecBar == InitBar /\ [][NextBar]_vars

(***************************************************************************)
(* SpecLive: the grace-period engine under fair scheduling.  A reader task *)
(* makes LiveLocks calls of prcu_read_lock in all and, whenever it is      *)
(* inside a critical section, is eventually scheduled and eventually runs  *)
(* prcu_read_unlock; a prcu_read_lock under way finishes; every            *)
(* prcu_handler cross-call is eventually run; a synchronize_prcu call      *)
(* that has started takes each of its steps once the step stays possible.  *)
(* Nothing obliges a task to call prcu_read_lock or synchronize_prcu.      *)
(***************************************************************************)
LiveLocks == 2

InitLive == Base /\ lim = Workload(1, MaxNest, LiveLocks, NWriters, MaxGpv, 0, FALSE)

FairReaders ==
  \A r \in Readers :
    /\ SF_vars(\E p \in CPUs : UnlockLocal(r, p) \/ UnlockMigrated(r, p))
    /\ SF_vars(\E p \in CPUs : Resume(r, p))
    /\ WF_vars(\E p \in CPUs : rpc[r] = "lock" /\ LockInc(r, p))

FairHandlers == \A p \in CPUs : WF_vars(prcu_handler(p))

FairWriters ==
  \A w \in Writers :
    /\ WF_vars(\E p \in CPUs : SyncLock(w, p))
    /\ WF_vars(SyncScan(w))
    /\ WF_vars(SyncSpin(w))
    /\ WF_vars(SyncWait(w))
    /\ WF_vars(SyncPublish(w))

SpecLive == InitLive /\ [][Next]_vars /\ FairReaders /\ FairHandlers /\ FairWriters

(***************************************************************************)
(* SpecBarLive: prcu_barrier under fair scheduling, with kmalloc never     *)
(* failing.  Every tick, every deferred dispatch and every cross-call      *)
(* eventually runs on every processor, prcu_barrier takes each of its      *)
(* steps, and a synchronize_prcu call that has started runs on.  Nothing   *)
(* obliges a task to call synchronize_prcu, call_prcu or prcu_barrier.     *)
(***************************************************************************)
InitBarLive == Visited /\ lim = Workload(0, 0, 0, 1, 1, 1, FALSE)

FairDispatch ==
  \A p \in CPUs :
    /\ WF_vars(prcu_check_callbacks(p))
    /\ WF_vars(ProcSnap(p))
    /\ WF_vars(ProcInvoke(p))
    /\ WF_vars(ProcEnd(p))

FairBarrier ==
  /\ WF_vars(\E ok \in BOOLEAN : BarFunc(ok))
  /\ WF_vars(BarDec)
  /\ WF_vars(BarReturn)

SpecBarLive ==
  InitBarLive /\ [][NextBar]_vars /\ FairDispatch /\ FairBarrier /\ FairWriters

(***************************************************************************)
(* The claims.                                                             *)
(***************************************************************************)

\* C1: a synchronize_prcu call does not return while a reader that was inside
\* a critical section at the call's step-1 increment of global_version is
\* still inside it (pre[w] holds exactly those readers).
C1_GracePeriod == \A w \in Writers : wpc[w] = "ret" => pre[w] = {}

\* C1 witness: a call that found a reader inside a critical section at its
\* step 1 has passed every wait, the reader having left.
C1_Witness == \E w \in Writers : wpc[w] = "pub" /\ had[w] /\ pre[w] = {}

\* C2: no callback is invoked while a reader that was inside a critical
\* section when the callback was enqueued is still inside it.
C2_CallbackGracePeriod == lastInv.fn # "none" => lastInv.rd = {}

\* C3: when a callback is invoked, a synchronize_prcu call that incremented
\* global_version after the enqueue has published cb_version.
C3_CallbackAfterNewSync == lastInv.fn # "none" => lastInv.gp

\* C4: at the instant a callback is invoked, prcu->cb_version is greater than
\* the callback's version stamp.
C4_CbvAboveStampAtInvoke == lastInv.fn # "none" => lastInv.cbv > lastInv.ver

\* C5: when prcu_barrier returns, no callback that was queued when it was
\* called is still queued, and no processor's barrier callback is: all were
\* invoked, and barrier_cpu_count is 0.
C5_BarrierDrains ==
  bpc = "ret" =>
    /\ \A p \in CPUs : \A i \in DOMAIN cblist[p] :
         ~cbh[p][i].old /\ cblist[p][i].fn # "bar"
    /\ barrier_cpu_count = 0

\* C5 witness: prcu_barrier has returned from a call made with callbacks queued.
C5_Witness == bpc = "ret" /\ nold > 0

\* C6: prcu->cb_version never decreases.
C6_CbvMonotone == [][cbv' >= cbv]_vars

\* C7: whenever no synchronize_prcu call is in progress, cb_version equals
\* global_version.
C7_QuiescentCbvEqualsGpv ==
  (\A w \in Writers : wpc[w] \in {"idle", "ret"}) => cbv = gpv

\* C8: under SpecLive's fairness every synchronize_prcu call that has
\* incremented global_version returns.
C8_SyncReturns == \A w \in Writers : (wpc[w] = "inc") ~> (wpc[w] = "ret")

\* C8 witness: every synchronize_prcu call the workload allows has started
\* and returned, after all of its reader activity.
C8_Witness ==
  /\ gpv = MaxGpv /\ nlock = LiveLocks
  /\ \A w \in Writers : wpc[w] \in {"idle", "ret"}
  /\ \E w \in Writers : wpc[w] = "ret"

\* C9: under SpecBarLive's fairness every prcu_barrier call returns.
C9_BarrierReturns == (bpc \in {"reg", "dec", "wait"}) ~> (bpc = "ret")

\* C10: a call whose step 1 found a task inside a critical section does not
\* return while that task, having since run a nested lock and the inner
\* unlock, is still inside the outer one; and an unlock that finds
\* local->locked above 1 leaves local->version alone (no prcu_report).
C10_Nesting ==
  /\ [](\A w \in Writers, r \in Readers :
          wpc[w] = "ret" /\ nested[r] /\ rdepth[r] >= 1 => r \notin pre[w])
  /\ [][\A p \in CPUs :
          locked[p] > 1 /\ locked'[p] = locked[p] - 1 => version'[p] = version[p]]_vars

\* C10 witness: after lock, lock, unlock the task is still inside the outer
\* critical section, and a call that incremented global_version after the
\* first lock has finished its scan and has not returned.
C10_Witness ==
  \E w \in Writers, r \in Readers :
    /\ nested[r] /\ rdepth[r] = 1 /\ r \in pre[w]
    /\ wpc[w] = "spin"

\* C11: while no reader holds the lock anywhere (every local->locked is 0,
\* active_ctr is 0, no task is inside a critical section or entering one), a
\* synchronize_prcu call past its scan is never held in the spin of lines
\* 234-238 by a processor whose version is below the call's, and is never held
\* by active_ctr.  SpecCb has no reader at any time, on processors whose
\* online flag is 0 or 1.
C11_NoReaderNoSpin ==
  \A w \in Writers :
    (/\ wpc[w] = "spin"
     /\ \A p \in CPUs : locked[p] = 0
     /\ active_ctr = 0
     /\ \A r \in Readers : rdepth[r] = 0 /\ rpc[r] = "out")
    => /\ wcpus[w] # {} => Committed(w, SpinCpu(w))
       /\ NoActive

\* C12: prcu->cb_version never exceeds prcu->global_version.
C12_CbvAtMostGpv == cbv <= gpv

\* C12 witness: two calls have published cb_version one after the other and
\* cb_version has caught up with global_version.
C12_Witness ==
  /\ \A w \in Writers : wpc[w] = "ret"
  /\ gpv = MaxGpv /\ cbv = gpv

\* C13: an rcu_head whose call_prcu failed to allocate its version stamp is
\* in no processor's callback list and is not the callback a dispatch
\* invokes; and the failing call leaves every callback list, global_version,
\* cb_version, active_ctr and every processor's record as they were.
C13_AllocFailureDrops ==
  /\ [](\A k \in warned :
          /\ \A p \in CPUs : \A i \in DOMAIN cblist[p] : cblist[p][i].id # k
          /\ lastInv.fn # "none" => lastInv.id # k)
  /\ [][warned' # warned =>
          UNCHANGED <<cblist, gpv, cbv, active_ctr, version, cb_version,
                      locked, online>>]_vars

\* C13 witness: the first call_prcu failed to allocate, and a later dispatch
\* has invoked the callback of the second.
C13_Witness == 1 \in warned /\ lastInv.fn = "cb"

\* C14: no step replaces a processor's local->version by a smaller value.
C14_VersionMonotone == [][\A p \in CPUs : version'[p] >= version[p]]_vars

\* C15: on every processor the callback list and the version-stamp list have
\* the same length, and the version stamps do not decrease from head to tail.
C15_StampsSorted ==
  \A p \in CPUs :
    /\ Len([i \in DOMAIN cblist[p] |-> cblist[p][i].id])
         = Len([i \in DOMAIN cblist[p] |-> cblist[p][i].ver])
    /\ \A i, j \in DOMAIN cblist[p] : i < j => cblist[p][i].ver <= cblist[p][j].ver

\* The sum of f over the set S.
RECURSIVE Sum(_, _)
Sum(f, S) ==
  IF S = {} THEN 0
  ELSE LET x == CHOOSE y \in S : TRUE IN f[x] + Sum(f, S \ {x})

\* C16: the local->locked counts and active_ctr together count the
\* prcu_read_lock calls not yet matched by a prcu_read_unlock, so active_ctr
\* is never negative and is 0 once every reader has unlocked; a step that
\* changes local->locked with no lock or unlock (prcu_note_context_switch)
\* zeroes it and adds all of it to active_ctr; an unlock that leaves every
\* local->locked alone (a migrated reader's) takes 1 from active_ctr.
C16_ReaderCount ==
  /\ [](/\ Sum(locked, CPUs) + active_ctr = Sum(rdepth, Readers)
        /\ active_ctr >= 0
        /\ \A p \in CPUs : locked[p] >= 0
        /\ (\A r \in Readers : rdepth[r] = 0) => active_ctr = 0)
  /\ [][(\A p \in CPUs :
            (rdepth' = rdepth /\ locked'[p] # locked[p])
              => (locked'[p] = 0 /\ active_ctr' = active_ctr + locked[p]))
        /\ ((Sum(rdepth', Readers) < Sum(rdepth, Readers) /\ locked' = locked)
              => (active_ctr' = active_ctr - 1))]_vars

\* C16 witness: a task inside two nested critical sections has been switched
\* out, and the hook has moved the processor's count of 2 into active_ctr.
C16_Witness ==
  \E r \in Readers :
    /\ rdepth[r] = 2 /\ rcpu[r] = 0
    /\ active_ctr = 2 /\ \A p \in CPUs : locked[p] = 0

\* C17: whenever the oldest callback queued on a processor has a stamp below
\* prcu->cb_version, and no dispatch is raised or running there,
\* prcu_pending() is true on that processor, so that the next tick raises the
\* dispatch that invokes the callback.
C17_PendingWhenReady ==
  \A p \in CPUs :
    (/\ cblist[p] # <<>> /\ Head(cblist[p]).ver < cbv
     /\ dpc[p] = "idle" /\ ~softirq[p])
    => prcu_pending(p)

\* C18: a dispatch round on a processor reads prcu->cb_version once, at its
\* start; each callback it takes off the list is the head of the list, has a
\* stamp strictly below the snapshot, was enqueued before every callback left
\* behind, is the one invoked, and leaves the rest of the list in its order;
\* the round ends only at an empty list or at a head whose stamp is not below
\* the snapshot, and then stores the snapshot into local->cb_version and
\* leaves the list alone.
C18_DispatchRound ==
  [][\A p \in CPUs :
       /\ (dpc[p] = "idle" /\ dpc'[p] = "run") => (dsnap'[p] = cbv)
       /\ (dpc[p] = "run" /\ dpc'[p] = "run") => (dsnap'[p] = dsnap[p])
       /\ (Len(cblist'[p]) < Len(cblist[p]))
            => (/\ dpc[p] = "run" /\ dpc'[p] = "run"
                /\ Head(cblist[p]).ver < dsnap[p]
                /\ cblist'[p] = Tail(cblist[p])
                /\ lastInv'.fn = Head(cblist[p]).fn
                /\ lastInv'.id = Head(cblist[p]).id
                /\ \A i \in DOMAIN cblist'[p] : cblist'[p][i].id > Head(cblist[p]).id)
       /\ (dpc[p] = "run" /\ dpc'[p] = "idle")
            => (/\ cb_version'[p] = dsnap[p]
                /\ cblist'[p] = cblist[p]
                /\ cblist[p] = <<>> \/ Head(cblist[p]).ver >= dsnap[p])]_vars

\* C18 witness: a round has invoked the oldest callback of a processor and
\* stopped at the next one, whose stamp is not below the snapshot.
C18_Witness ==
  \E p \in CPUs :
    /\ dpc[p] = "run" /\ lastInv.fn = "cb"
    /\ cblist[p] # <<>> /\ Head(cblist[p]).ver >= dsnap[p]

\* C19: within one prcu_barrier call barrier_completion is completed at most
\* once, and exactly once when the call has returned; it is not completed
\* before prcu_barrier_func has run on every processor, counted and enqueued
\* its callback there, and the initial count of 1 has been taken off;
\* barrier_cpu_count is never negative, and is at least 1 while the
\* registration loop is running.
C19_BarrierCount ==
  /\ barrier_done <= 1
  /\ barrier_cpu_count >= 0
  /\ bpc = "ret" => barrier_done = 1
  /\ barrier_done >= 1 =>
       /\ bpc \in {"wait", "ret"} /\ bi = NCPU + 1
       /\ barrier_cpu_count = 0
       /\ \A p \in CPUs : (0 - p) \notin warned
  /\ bpc = "reg" => barrier_cpu_count >= 1

\* C19 witness: a barrier callback has been invoked while the registration
\* loop is still running.
C19_Witness == bpc = "reg" /\ lastInv.fn = "bar"

\* What no reader step changes: the global versions, the writer mutex, the
\* callback lists and callback versions, and the barrier state.
ReaderFrame ==
  UNCHANGED <<gpv, cbv, mtx, cb_version, cblist, softirq, dpc, dsnap,
              barrier_mtx, barrier_cpu_count, barrier_done>>

\* The records of the processors other than p are unchanged.
OthersSame(p) ==
  \A q \in CPUs \ {p} :
    locked'[q] = locked[q] /\ online'[q] = online[q] /\ version'[q] = version[q]

\* C20: a step of prcu_read_lock by a task on processor p changes, of the
\* PRCU state, only p's online and locked; a prcu_read_unlock on p with
\* local->locked above 0 changes only p's locked and version; one with
\* local->locked 0 (a migrated reader) changes only active_ctr.
C20_ReaderFrame ==
  [][\A r \in Readers :
       /\ (rdepth'[r] > rdepth[r] \/ rpc'[r] # rpc[r])
            => (/\ ReaderFrame /\ active_ctr' = active_ctr
                /\ OthersSame(rcpu'[r])
                /\ version'[rcpu'[r]] = version[rcpu'[r]])
       /\ (rdepth'[r] < rdepth[r] /\ locked[rcpu[r]] > 0)
            => (/\ ReaderFrame /\ active_ctr' = active_ctr
                /\ OthersSame(rcpu[r])
                /\ online'[rcpu[r]] = online[rcpu[r]])
       /\ (rdepth'[r] < rdepth[r] /\ locked[rcpu[r]] = 0)
            => (/\ ReaderFrame /\ active_ctr' # active_ctr
                /\ locked' = locked /\ online' = online /\ version' = version)]_vars

\* C20 witness: a migrated reader runs, still inside its critical section,
\* on a processor whose version is behind global_version, beside a
\* synchronize_prcu call in progress and a queued callback.
C20_Witness ==
  \E r \in Readers :
    /\ rdepth[r] > 0 /\ rcpu[r] # 0 /\ rpc[r] = "out"
    /\ locked[rcpu[r]] = 0 /\ active_ctr > 0
    /\ version[rcpu[r]] < gpv
    /\ \E p \in CPUs : cblist[p] # <<>>

\* C21: a processor whose online flag is 0 has local->locked 0, so a
\* processor the scan of synchronize_prcu passes over for its online flag
\* hosts no reader counted in local->locked (none but migrated ones, which
\* active_ctr counts).
C21_OfflineNoReader ==
  /\ \A p \in CPUs : online[p] = 0 => locked[p] = 0
  /\ \A w \in Writers :
       (wpc[w] = "scan" /\ online[wi[w]] = 0) => locked[wi[w]] = 0

\* C21 witness: the scan is at a processor on which a task, switched out
\* inside a critical section and scheduled again, holds a nested one.
C21_Witness ==
  \E w \in Writers, r \in Readers :
    /\ wpc[w] = "scan" /\ wi[w] = rcpu[r]
    /\ rdepth[r] = 2 /\ locked[rcpu[r]] = 1 /\ active_ctr = 1
    /\ online[rcpu[r]] = 1
====
